---- MODULE Spec2Model ----
(***************************************************************************)
(* Model of the sandbox-ascii rendering engine: the Screen character       *)
(* buffer (renderer.py), the shape rasterizers drawn into it (shapes.py),  *)
(* the motion functions and animated elements (effects.py) and the frame   *)
(* driver run_animation (main.py).                                         *)
(*                                                                         *)
(* A Python str is modelled as a sequence of one-character strings, a      *)
(* Python list as a sequence whose Python index i is TLA+ index i + 1.     *)
(* A call is one atomic action; its frame (arguments, the buffer before    *)
(* the call, the set_pixel calls it made, its return value, whether an     *)
(* exception escaped) is kept in `call` until the caller moves on.         *)
(* Spec is the Screen on its own, constructed with any width and height;   *)
(* SpecShapes is a Screen of positive width and height with the            *)
(* rasterizers drawing into it; SpecMotion is the motion functions called  *)
(* on their own; SpecAnimation adds one run of run_animation, statement by *)
(* statement, with Ctrl+C arriving at any of them.                         *)
(***************************************************************************)
EXTENDS Integers, Sequences, FiniteSets

VARIABLES width, height, buffer, call, ncalls

vars == <<width, height, buffer, call, ncalls>>

----------------------------------------------------------------------------
(* Bounds of the model                                                     *)

\* largest width / height a Screen is constructed with
MaxDim == 2
\* calls made on one Screen after its construction
MaxCalls == 2
\* largest radius passed to draw_circle
MaxRadius == 3
\* longest text passed to draw_text
MaxText == 2
\* loop iterations of draw_line / draw_circle that are followed
MaxIter == 12

\* width and height arguments of Screen(...): non-positive ones included
DimArgs == (0 - 1)..MaxDim
\* coordinates: one cell outside the largest buffer on every side
Coords == (0 - 1)..MaxDim
\* width and height arguments of the boxes: up to one more than the buffer's
Sizes == (0 - 1)..(MaxDim + 1)
Radii == (0 - 1)..MaxRadius
\* fill characters of the shapes: the default of the boxes
FillChars == {"#"}
\* characters written with set_pixel
Chars == {" ", "#", "o"}
TextChars == {"A", "B"}
Texts == UNION {[1..n -> TextChars] : n \in 0..MaxText}

----------------------------------------------------------------------------
(* Python lists and strings                                                *)

\* seq[i] raises IndexError unless -len <= i < len
IndexOK(seq, i) == (0 - Len(seq)) <= i /\ i < Len(seq)

\* the TLA+ index of Python's seq[i] (negative i counts from the end)
Index(seq, i) == IF i >= 0 THEN i + 1 ELSE Len(seq) + i + 1

\* ch * n
Repeat(ch, n) == [i \in 1..n |-> ch]

\* sep.join(parts): parts is a sequence of strings
RECURSIVE StrJoin(_, _)
StrJoin(sep, parts) ==
    IF Len(parts) = 0 THEN << >>
    ELSE IF Len(parts) = 1 THEN parts[1]
    ELSE parts[1] \o sep \o StrJoin(sep, Tail(parts))

----------------------------------------------------------------------------
(* renderer.py: Screen                                                     *)

\* the Screen object the methods act on
Screen == [width |-> width, height |-> height, buffer |-> buffer]

\* faulty variant: the two comprehensions exchanged (rows of `height` cells)
_create_buffer_transposed(w, h) == [j \in 1..w |-> [i \in 1..h |-> " "]]

_create_buffer(w, h) == [j \in 1..h |-> [i \in 1..w |-> " "]]

\* faulty variant: the new buffer is built and dropped (no assignment)
clear_dropped(scr) == scr.buffer

clear(scr) == _create_buffer(scr.width, scr.height)

\* faulty variant: the indices exchanged (buffer[x][y])
set_pixel_swapped(scr, x, y, char) ==
    IF 0 <= x /\ x < scr.width /\ 0 <= y /\ y < scr.height
    THEN IF IndexOK(scr.buffer, x) /\ IndexOK(scr.buffer[Index(scr.buffer, x)], y)
         THEN [buffer |-> [scr.buffer EXCEPT
                             ![Index(scr.buffer, x)]
                              [Index(scr.buffer[Index(scr.buffer, x)], y)] = char],
               raised |-> FALSE]
         ELSE [buffer |-> scr.buffer, raised |-> TRUE]
    ELSE [buffer |-> scr.buffer, raised |-> FALSE]

\* faulty variant: only the upper bounds are tested (x < width and y < height)
set_pixel_unguarded(scr, x, y, char) ==
    IF x < scr.width /\ y < scr.height
    THEN IF IndexOK(scr.buffer, y) /\ IndexOK(scr.buffer[Index(scr.buffer, y)], x)
         THEN [buffer |-> [scr.buffer EXCEPT
                             ![Index(scr.buffer, y)]
                              [Index(scr.buffer[Index(scr.buffer, y)], x)] = char],
               raised |-> FALSE]
         ELSE [buffer |-> scr.buffer, raised |-> TRUE]
    ELSE [buffer |-> scr.buffer, raised |-> FALSE]

\* faulty variant: writing a character into a cell that holds it blanks the cell
set_pixel_toggle(scr, x, y, char) ==
    IF 0 <= x /\ x < scr.width /\ 0 <= y /\ y < scr.height
    THEN [buffer |-> [scr.buffer EXCEPT ![y + 1][x + 1] =
                         IF @ = char THEN " " ELSE char],
          raised |-> FALSE]
    ELSE [buffer |-> scr.buffer, raised |-> FALSE]

\* result: the buffer afterwards, and whether an IndexError escaped
set_pixel(scr, x, y, char) ==
    IF 0 <= x /\ x < scr.width /\ 0 <= y /\ y < scr.height
    THEN IF IndexOK(scr.buffer, y) /\ IndexOK(scr.buffer[Index(scr.buffer, y)], x)
         THEN [buffer |-> [scr.buffer EXCEPT
                             ![Index(scr.buffer, y)]
                              [Index(scr.buffer[Index(scr.buffer, y)], x)] = char],
               raised |-> FALSE]
         ELSE [buffer |-> scr.buffer, raised |-> TRUE]
    ELSE [buffer |-> scr.buffer, raised |-> FALSE]

\* result: the character returned, and whether an IndexError escaped
get_pixel(scr, x, y) ==
    IF 0 <= x /\ x < scr.width /\ 0 <= y /\ y < scr.height
    THEN IF IndexOK(scr.buffer, y) /\ IndexOK(scr.buffer[Index(scr.buffer, y)], x)
         THEN [ret |-> scr.buffer[Index(scr.buffer, y)]
                                 [Index(scr.buffer[Index(scr.buffer, y)], x)],
               raised |-> FALSE]
         ELSE [ret |-> "None", raised |-> TRUE]
    ELSE [ret |-> " ", raised |-> FALSE]

render(scr) ==
    LET lines  == [j \in 1..Len(scr.buffer) |->
                      StrJoin(<< >>, [i \in 1..Len(scr.buffer[j]) |-> <<scr.buffer[j][i]>>])]
        border == <<"+">> \o Repeat("-", scr.width) \o <<"+">>
        framed == <<border>> \o [j \in 1..Len(lines) |-> <<"|">> \o lines[j] \o <<"|">>]
                             \o <<border>>
    IN  StrJoin(<<"\n">>, framed)

----------------------------------------------------------------------------
(* shapes.py: the rasterizers                                              *)

abs(n) == IF n < 0 THEN 0 - n ELSE n

\* the set_pixel calls <<x, y, char>> of a shape, made one after the other on
\* the screen; an exception of set_pixel ends the shape
RECURSIVE plot(_, _)
plot(scr, calls) ==
    IF calls = << >> THEN [buffer |-> scr.buffer, raised |-> FALSE]
    ELSE LET r == set_pixel(scr, calls[1][1], calls[1][2], calls[1][3]) IN
         IF r.raised THEN r
         ELSE plot([scr EXCEPT !.buffer = r.buffer], Tail(calls))

\* the calls of draw_box in order: the loop over range(width) writes the top
\* and bottom edges, the loop over range(height) the left and right edges
draw_box_calls(x, y, w, h, char) ==
    [k \in 1..(2 * w) |->
        IF k % 2 = 1 THEN <<x + ((k - 1) \div 2), y, char>>
                     ELSE <<x + ((k - 2) \div 2), y + h - 1, char>>]
    \o
    [k \in 1..(2 * h) |->
        IF k % 2 = 1 THEN <<x, y + ((k - 1) \div 2), char>>
                     ELSE <<x + w - 1, y + ((k - 2) \div 2), char>>]

\* faulty variant: the loop bounds exchanged (j over range(width), i over
\* range(height))
draw_filled_box_calls_swapped(x, y, w, h, char) ==
    IF w > 0 /\ h > 0
    THEN [k \in 1..(w * h) |-> <<x + ((k - 1) % h), y + ((k - 1) \div h), char>>]
    ELSE << >>

\* the calls of draw_filled_box: for j in range(height): for i in range(width)
draw_filled_box_calls(x, y, w, h, char) ==
    IF w > 0 /\ h > 0
    THEN [k \in 1..(w * h) |-> <<x + ((k - 1) % w), y + ((k - 1) \div w), char>>]
    ELSE << >>

\* the while True loop of draw_line from its state (x1, y1, err); `left` counts
\* the iterations still followed
RECURSIVE line_loop(_, _, _, _, _, _, _, _, _, _, _)
line_loop(x1, y1, x2, y2, dx, dy, sx, sy, err, char, left) ==
    IF left = 0 THEN [calls |-> << >>, hung |-> TRUE]
    ELSE IF x1 = x2 /\ y1 = y2 THEN [calls |-> <<<<x1, y1, char>>>>, hung |-> FALSE]
    ELSE LET e2   == 2 * err
             err1 == IF e2 > 0 - dy THEN err - dy ELSE err
             nx   == IF e2 > 0 - dy THEN x1 + sx ELSE x1
             err2 == IF e2 < dx THEN err1 + dx ELSE err1
             ny   == IF e2 < dx THEN y1 + sy ELSE y1
             rest == line_loop(nx, ny, x2, y2, dx, dy, sx, sy, err2, char, left - 1)
         IN  [calls |-> <<<<x1, y1, char>>>> \o rest.calls, hung |-> rest.hung]

\* faulty variant: the error term starts at dx + dy
draw_line_calls_err(x1, y1, x2, y2, char) ==
    line_loop(x1, y1, x2, y2, abs(x2 - x1), abs(y2 - y1),
              IF x1 < x2 THEN 1 ELSE 0 - 1, IF y1 < y2 THEN 1 ELSE 0 - 1,
              abs(x2 - x1) + abs(y2 - y1), char, MaxIter)

draw_line_calls(x1, y1, x2, y2, char) ==
    line_loop(x1, y1, x2, y2, abs(x2 - x1), abs(y2 - y1),
              IF x1 < x2 THEN 1 ELSE 0 - 1, IF y1 < y2 THEN 1 ELSE 0 - 1,
              abs(x2 - x1) - abs(y2 - y1), char, MaxIter)

\* faulty variant: the third call repeats the second (cx + y for cx - y)
circle_points_typo(cx, cy, x, y, char) ==
    << <<cx + x, cy + y, char>>, <<cx + y, cy + x, char>>,
       <<cx + y, cy + x, char>>, <<cx - x, cy + y, char>>,
       <<cx - x, cy - y, char>>, <<cx - y, cy - x, char>>,
       <<cx + y, cy - x, char>>, <<cx + x, cy - y, char>> >>

\* the eight set_pixel calls of one iteration of draw_circle
circle_points(cx, cy, x, y, char) ==
    << <<cx + x, cy + y, char>>, <<cx + y, cy + x, char>>,
       <<cx - y, cy + x, char>>, <<cx - x, cy + y, char>>,
       <<cx - x, cy - y, char>>, <<cx - y, cy - x, char>>,
       <<cx + y, cy - x, char>>, <<cx + x, cy - y, char>> >>

\* the while x >= y loop of draw_circle from its state (x, y, err)
RECURSIVE circle_loop(_, _, _, _, _, _, _)
circle_loop(cx, cy, x, y, err, char, left) ==
    IF ~(x >= y) THEN [calls |-> << >>, hung |-> FALSE]
    ELSE IF left = 0 THEN [calls |-> << >>, hung |-> TRUE]
    ELSE LET y1   == y + 1
             err1 == err + 1 + 2 * y1
             x1   == IF 2 * (err1 - x) + 1 > 0 THEN x - 1 ELSE x
             err2 == IF 2 * (err1 - x) + 1 > 0 THEN err1 + 1 - 2 * x1 ELSE err1
             rest == circle_loop(cx, cy, x1, y1, err2, char, left - 1)
         IN  [calls |-> circle_points(cx, cy, x, y, char) \o rest.calls,
              hung |-> rest.hung]

\* faulty variant: a negative radius is drawn as its absolute value
draw_circle_calls_abs(cx, cy, radius, char) ==
    circle_loop(cx, cy, abs(radius), 0, 0, char, MaxIter)

draw_circle_calls(cx, cy, radius, char) ==
    circle_loop(cx, cy, radius, 0, 0, char, MaxIter)

\* faulty variant: a character past the right edge wraps onto the next row
draw_text_calls_wrapped(x, y, text) ==
    [k \in 1..Len(text) |->
        <<(x + (k - 1)) % width, y + ((x + (k - 1)) \div width), text[k]>>]

\* the calls of draw_text: for i, char in enumerate(text)
draw_text_calls(x, y, text) == [k \in 1..Len(text) |-> <<x + (k - 1), y, text[k]>>]

\* a rasterizer's result: the buffer afterwards, the set_pixel calls, whether
\* an exception escaped, whether its loop was still running after MaxIter rounds
Drawn(scr, calls, hung) ==
    LET r == plot(scr, calls) IN
    [buffer |-> r.buffer, calls |-> calls, raised |-> r.raised, hung |-> hung]

draw_box(scr, x, y, w, h, char) ==
    Drawn(scr, draw_box_calls(x, y, w, h, char), FALSE)

draw_filled_box(scr, x, y, w, h, char) ==
    Drawn(scr, draw_filled_box_calls(x, y, w, h, char), FALSE)

draw_line(scr, x1, y1, x2, y2, char) ==
    LET l == draw_line_calls(x1, y1, x2, y2, char) IN Drawn(scr, l.calls, l.hung)

draw_circle(scr, cx, cy, radius, char) ==
    LET l == draw_circle_calls(cx, cy, radius, char) IN Drawn(scr, l.calls, l.hung)

draw_text(scr, x, y, text) ==
    Drawn(scr, draw_text_calls(x, y, text), FALSE)

----------------------------------------------------------------------------
(* Calls                                                                   *)

NoCall == [op |-> "none"]

Idle == call.op = "none"

\* a call can be made: none is running and the caller has calls left
CanCall == Idle /\ ncalls < MaxCalls

\* the frame of a finished call: pre is the Screen as the call found it
Frame(op, args, writes, ret, raised, hung) ==
    [op |-> op, args |-> args, pre |-> Screen, writes |-> writes,
     ret |-> ret, raised |-> raised, hung |-> hung]

\* Screen(width, height): __init__ stores the arguments and builds the buffer
Init ==
    \E w \in DimArgs, h \in DimArgs :
        /\ width = w
        /\ height = h
        /\ buffer = _create_buffer(w, h)
        /\ call = [op |-> "__init__", args |-> [width |-> w, height |-> h],
                   pre |-> [width |-> 0, height |-> 0, buffer |-> << >>],
                   writes |-> << >>, ret |-> "None",
                   raised |-> FALSE, hung |-> FALSE]
        /\ ncalls = 0

\* the caller goes on after a call
Return ==
    /\ ~Idle
    /\ call' = NoCall
    /\ UNCHANGED <<width, height, buffer, ncalls>>

CallClear ==
    /\ CanCall
    /\ buffer' = clear(Screen)
    /\ call' = Frame("clear", << >>, << >>, "None", FALSE, FALSE)
    /\ ncalls' = ncalls + 1
    /\ UNCHANGED <<width, height>>

CallSetPixel ==
    /\ CanCall
    /\ \E x \in Coords, y \in Coords, c \in Chars :
        LET r == set_pixel(Screen, x, y, c) IN
        /\ buffer' = r.buffer
        /\ call' = Frame("set_pixel", [x |-> x, y |-> y, char |-> c],
                         <<<<x, y, c>>>>, "None", r.raised, FALSE)
        /\ ncalls' = ncalls + 1
        /\ UNCHANGED <<width, height>>

CallGetPixel ==
    /\ CanCall
    /\ \E x \in Coords, y \in Coords :
        LET r == get_pixel(Screen, x, y) IN
        /\ call' = Frame("get_pixel", [x |-> x, y |-> y], << >>, r.ret, r.raised, FALSE)
        /\ ncalls' = ncalls + 1
        /\ UNCHANGED <<width, height, buffer>>

CallRender ==
    /\ CanCall
    /\ call' = Frame("render", << >>, << >>, render(Screen), FALSE, FALSE)
    /\ ncalls' = ncalls + 1
    /\ UNCHANGED <<width, height, buffer>>

\* a rasterizer call with result r
Draw(op, args, r) ==
    /\ buffer' = r.buffer
    /\ call' = Frame(op, args, r.calls, "None", r.raised, r.hung)
    /\ ncalls' = ncalls + 1
    /\ UNCHANGED <<width, height>>

CallDrawBox ==
    /\ CanCall
    /\ \E x \in Coords, y \in Coords, w \in Sizes, h \in Sizes, c \in FillChars :
        Draw("draw_box", [x |-> x, y |-> y, width |-> w, height |-> h, char |-> c],
             draw_box(Screen, x, y, w, h, c))

CallDrawFilledBox ==
    /\ CanCall
    /\ \E x \in Coords, y \in Coords, w \in Sizes, h \in Sizes, c \in FillChars :
        Draw("draw_filled_box", [x |-> x, y |-> y, width |-> w, height |-> h, char |-> c],
             draw_filled_box(Screen, x, y, w, h, c))

CallDrawLine ==
    /\ CanCall
    /\ \E x1 \in Coords, y1 \in Coords, x2 \in Coords, y2 \in Coords :
        Draw("draw_line", [x1 |-> x1, y1 |-> y1, x2 |-> x2, y2 |-> y2, char |-> "*"],
             draw_line(Screen, x1, y1, x2, y2, "*"))

CallDrawCircle ==
    /\ CanCall
    /\ \E cx \in Coords, cy \in Coords, radius \in Radii :
        Draw("draw_circle", [cx |-> cx, cy |-> cy, radius |-> radius, char |-> "o"],
             draw_circle(Screen, cx, cy, radius, "o"))

CallDrawText ==
    /\ CanCall
    /\ \E x \in Coords, y \in Coords, text \in Texts :
        Draw("draw_text", [x |-> x, y |-> y, text |-> text],
             draw_text(Screen, x, y, text))

\* the Screen on its own
Next ==
    \/ Return
    \/ CallClear
    \/ CallSetPixel
    \/ CallGetPixel
    \/ CallRender

Spec == Init /\ [][Next]_vars

\* a Screen of positive width and height
InitValid == Init /\ width > 0 /\ height > 0

\* the Screen with the rasterizers drawing into it
NextShapes ==
    \/ Return
    \/ CallClear
    \/ CallSetPixel
    \/ CallGetPixel
    \/ CallRender
    \/ CallDrawBox
    \/ CallDrawFilledBox
    \/ CallDrawLine
    \/ CallDrawCircle
    \/ CallDrawText

SpecShapes == InitValid /\ [][NextShapes]_vars

----------------------------------------------------------------------------
(* Circles of every size on a Screen of positive width and height          *)

\* largest radius of the circles drawn here
MaxCircle == 12

CircleRadii == (0 - 1)..MaxCircle

CallDrawCircleAny ==
    /\ CanCall
    /\ \E cx \in Coords, cy \in Coords, radius \in CircleRadii :
        Draw("draw_circle", [cx |-> cx, cy |-> cy, radius |-> radius, char |-> "o"],
             draw_circle(Screen, cx, cy, radius, "o"))

NextCircle ==
    \/ Return
    \/ CallDrawCircleAny

SpecCircle == InitValid /\ [][NextCircle]_vars

----------------------------------------------------------------------------
(* effects.py: the motion functions                                        *)
(* A float is modelled as an exact fraction; int() drops the fraction.     *)
(* An angle is counted in tenths of a radian (speed 0.2 is 2, frequency    *)
(* 0.3 is 3), a sine in millionths.                                        *)

\* largest frame index passed to a motion function
MaxFrame == 8
\* largest start / end position of a slide (the smallest is its negative)
MaxPos == 3
\* largest duration of a slide
MaxDuration == 4
\* largest on_frames / off_frames of a blink
MaxOn == 3
\* largest amplitude of a bounce or a wave
MaxAmp == 2

FrameArgs == 0..MaxFrame
Positions == (0 - MaxPos)..MaxPos
\* durations: 0 is a non-negative integer too
Durations == 0..MaxDuration
OnOffArgs == 0..MaxOn
Amplitudes == 0..MaxAmp
\* columns passed to wave_offset
Columns == 0..MaxPos

\* int(n / d) for d > 0: toward zero
Trunc(n, d) == IF n >= 0 THEN n \div d ELSE 0 - ((0 - n) \div d)

\* math.sin at 0.0, 0.1, 0.2, ... in millionths
SinTable ==
    <<
       0, 99833, 198669, 295520, 389418, 479426,
       564642, 644218, 717356, 783327, 841471, 891207,
       932039, 963558, 985450, 997495, 999574, 991665,
       973848, 946300, 909297, 863209, 808496, 745705,
       675463, 598472, 515501, 427380, 334988, 239249,
       141120, 41581, 0 - 58374, 0 - 157746, 0 - 255541, 0 - 350783,
       0 - 442520, 0 - 529836, 0 - 611858, 0 - 687766, 0 - 756802, 0 - 818277,
       0 - 871576, 0 - 916166, 0 - 951602, 0 - 977530, 0 - 993691, 0 - 999923,
       0 - 996165, 0 - 982453, 0 - 958924, 0 - 925815, 0 - 883455, 0 - 832267,
       0 - 772764, 0 - 705540, 0 - 631267, 0 - 550686, 0 - 464602, 0 - 373877,
       0 - 279415, 0 - 182163, 0 - 83089, 16814, 116549, 215120,
       311541, 404850, 494113, 578440, 656987, 728969,
       793668, 850437, 898708, 938000, 967920, 988168,
       998543, 998941, 989358, 969890, 940731, 902172,
       854599, 798487, 734397, 662969, 584917, 501021,
       412118, 319098, 222890, 124454, 24775, 0 - 75151,
       0 - 174327, 0 - 271761, 0 - 366479, 0 - 457536, 0 - 544021, 0 - 625071,
       0 - 699875, 0 - 767686, 0 - 827826, 0 - 879696, 0 - 922775, 0 - 956635,
       0 - 980936, 0 - 995436, 0 - 999990, 0 - 994553, 0 - 979178, 0 - 954019,
       0 - 919329, 0 - 875452, 0 - 822829, 0 - 761984, 0 - 693525, 0 - 618137,
       0 - 536573, 0 - 449647, 0 - 358229, 0 - 263232, 0 - 165604, 0 - 66322,
       33623, 133232, 231510, 327474, 420167, 508661,
       592074, 669570, 740376, 803784, 859162, 905955,
       943696, 972008, 990607, 999309, 998027, 986772,
       965658, 934895, 894791, 845747, 788252, 722881,
       650288, 571197, 486399, 396741, 303118, 206467,
       107754, 7963, 0 - 91907, 0 - 190859, 0 - 287903, 0 - 382071,
       0 - 472422, 0 - 558052, 0 - 638107, 0 - 711785, 0 - 778352, 0 - 837142,
       0 - 887567, 0 - 929124, 0 - 961397, 0 - 984065, 0 - 996900, 0 - 999774,
       0 - 992659, 0 - 975626, 0 - 948844, 0 - 912582, 0 - 867202, 0 - 813157,
       0 - 750987, 0 - 681314, 0 - 604833, 0 - 522309, 0 - 434566, 0 - 342481,
       0 - 246974, 0 - 148999, 0 - 49536, 50423, 149877, 247834,
       343315, 435365, 523066, 605540, 681964, 751573,
       813674, 867644, 912945, 949125, 975821, 992766,
       999793, 996830, 983907, 961153, 928795, 887158,
       836656, 777794, 711161, 637423, 557315, 471639,
       381250, 287053, 189987, 91022, 0 - 8851, 0 - 108637,
       0 - 207336, 0 - 303965, 0 - 397556, 0 - 487175, 0 - 571926, 0 - 650962,
       0 - 723495, 0 - 788798, 0 - 846220, 0 - 895187, 0 - 935210, 0 - 965888,
       0 - 986916, 0 - 998082, 0 - 999276, 0 - 990486
    >>

\* math.sin(t / 10) * 1000000
math_sin(t) == SinTable[t + 1]

\* the result of a motion function: its value, or the exception that escaped
Returned(v) == [ret |-> v, raised |-> FALSE]
Raised == [ret |-> "None", raised |-> TRUE]

\* int(abs(math.sin(frame * speed)) * amplitude)
bounce_position(frame, amplitude, speed) ==
    Returned(Trunc(abs(math_sin(frame * speed)) * amplitude, 1000000))

\* faulty variant: progress is not capped at 1.0
slide_position_unclamped(frame, start, end, duration) ==
    IF duration = 0 THEN Raised
    ELSE Returned(Trunc(start * duration + (end - start) * frame, duration))

\* progress = min(frame / duration, 1.0); int(start + (end - start) * progress)
\* frame / duration raises ZeroDivisionError for duration 0
slide_position(frame, start, end, duration) ==
    IF duration = 0 THEN Raised
    ELSE LET progress_num == IF frame >= duration THEN duration ELSE frame
         IN  Returned(Trunc(start * duration + (end - start) * progress_num, duration))

\* faulty variant: visible one frame longer
blink_visible_late(frame, on_frames, off_frames) ==
    LET cycle == on_frames + off_frames IN
    IF cycle = 0 THEN Raised
    ELSE Returned((frame % cycle) <= on_frames)

\* cycle = on_frames + off_frames; (frame % cycle) < on_frames
\* frame % cycle raises ZeroDivisionError for cycle 0
blink_visible(frame, on_frames, off_frames) ==
    LET cycle == on_frames + off_frames IN
    IF cycle = 0 THEN Raised
    ELSE Returned((frame % cycle) < on_frames)

\* int(math.sin(x * frequency + frame * 0.2) * amplitude)
wave_offset(x, frame, amplitude, frequency) ==
    Returned(Trunc(math_sin(x * frequency + frame * 2) * amplitude, 1000000))

MotionOps == {"bounce_position", "slide_position", "blink_visible", "wave_offset"}

\* a motion function is called and returns or raises: no Screen is involved
Motion(op, args, r) ==
    /\ call' = Frame(op, args, << >>, r.ret, r.raised, FALSE)
    /\ UNCHANGED <<width, height, buffer, ncalls>>

CallBounce ==
    /\ Idle
    /\ \E frame \in FrameArgs, amplitude \in Amplitudes :
        Motion("bounce_position", [frame |-> frame, amplitude |-> amplitude],
               bounce_position(frame, amplitude, 2))

CallSlide ==
    /\ Idle
    /\ \E frame \in FrameArgs, start \in Positions, end \in Positions,
          duration \in Durations :
        Motion("slide_position",
               [frame |-> frame, start |-> start, end |-> end, duration |-> duration],
               slide_position(frame, start, end, duration))

CallBlink ==
    /\ Idle
    /\ \E frame \in FrameArgs, on_frames \in OnOffArgs, off_frames \in OnOffArgs :
        Motion("blink_visible",
               [frame |-> frame, on_frames |-> on_frames, off_frames |-> off_frames],
               blink_visible(frame, on_frames, off_frames))

CallWave ==
    /\ Idle
    /\ \E x \in Columns, frame \in FrameArgs, amplitude \in Amplitudes :
        Motion("wave_offset", [x |-> x, frame |-> frame, amplitude |-> amplitude],
               wave_offset(x, frame, amplitude, 3))

\* the caller goes on after a motion function
ReturnMotion == call.op \in MotionOps /\ Return

\* the module is loaded: no Screen yet, no call running
InitMotion ==
    /\ width = 0
    /\ height = 0
    /\ buffer = << >>
    /\ call = NoCall
    /\ ncalls = 0

NextMotion ==
    \/ ReturnMotion
    \/ CallBounce
    \/ CallSlide
    \/ CallBlink
    \/ CallWave

\* the motion functions on their own
SpecMotion == InitMotion /\ [][NextMotion]_vars

----------------------------------------------------------------------------
(* effects.py: the animated elements                                       *)

\* y_offset = bounce_position(frame, amplitude=8); draw_box(screen, 5, 2 + y_offset, 10, 5)
render_bouncing_box(scr, frame) ==
    LET y_offset == bounce_position(frame, 8, 2).ret
    IN  draw_box(scr, 5, 2 + y_offset, 10, 5, "#")

\* x_pos = slide_position(frame, -len(text), screen.width, 60); draw_text(screen, x_pos, 7, text)
render_sliding_text(scr, frame, text) ==
    LET x_pos == slide_position(frame, 0 - Len(text), scr.width, 60).ret
    IN  draw_text(scr, x_pos, 7, text)

\* if blink_visible(frame, 8, 4): draw_circle(screen, 30, 7, 4, '*')
render_blinking_circle(scr, frame) ==
    IF blink_visible(frame, 8, 4).ret
    THEN draw_circle(scr, 30, 7, 4, "*")
    ELSE Drawn(scr, << >>, FALSE)

\* faulty variant: the wave is written only into cells that are still blank
render_wave_line_under(scr, frame) ==
    LET calls == [k \in 1..scr.width |->
                     <<k - 1, 12 + wave_offset(k - 1, frame, 2, 3).ret, "~">>]
        r == Drawn(scr, calls, FALSE)
    IN  [r EXCEPT !.buffer =
            [j \in 1..Len(scr.buffer) |->
                [i \in 1..Len(scr.buffer[j]) |->
                    IF scr.buffer[j][i] = " " THEN r.buffer[j][i]
                    ELSE scr.buffer[j][i]]]]

\* for x in range(screen.width): screen.set_pixel(x, 12 + wave_offset(x, frame), '~')
render_wave_line(scr, frame) ==
    Drawn(scr,
          [k \in 1..scr.width |->
              <<k - 1, 12 + wave_offset(k - 1, frame, 2, 3).ret, "~">>],
          FALSE)

----------------------------------------------------------------------------
(* main.py: run_animation                                                  *)
(* The activation of run_animation is kept in `call`: its arguments, the   *)
(* statement it is at (pc), the loop variable `frame`, the print calls it  *)
(* has made (stdout), the block the last display() left on the terminal    *)
(* (terminal: display() wipes the terminal with os.system('clear') and     *)
(* prints screen.render()), the set_pixel calls of each element in the     *)
(* current frame (drawn), whether Ctrl+C has arrived, and how it ended.    *)
(* Its Screen is width, height, buffer.  The length of a sleep is not      *)
(* modelled.                                                               *)

\* largest frames argument of run_animation
MaxFrames == 13
\* largest fps argument of run_animation
MaxFps == 1

\* frames and fps arguments: non-positive ones included
FramesArgs == (0 - 1)..MaxFrames
FpsArgs == (0 - 1)..MaxFps

Running == call.op = "run_animation"

At(pc) == Running /\ call.pc = pc

\* the statements inside `try:` (main.py 22-40)
TryPcs == {"for", "clear", "box", "text", "circle", "wave", "display", "counter", "sleep"}

\* run_animation has ended: it returned, or an exception left it
Ended == Running /\ call.pc \in {"returned", "raised"}

CODEFLOW == <<"C", "O", "D", "E", "F", "L", "O", "W">>

NoneDrawn == [box |-> << >>, text |-> << >>, circle |-> << >>, wave |-> << >>]

\* print(text)
Message(text) == [print |-> "message", text |-> text]

\* an exception leaves run_animation
Fails(c, exc) == [c EXCEPT !.pc = "raised", !.raised = TRUE, !.exc = exc]

\* main.py 15-19: the Screen is built, frame_delay = 1.0 / fps is computed
\* (ZeroDivisionError for fps 0), the two opening lines are printed
StartAnimation ==
    /\ Idle
    /\ \E frames \in FramesArgs, fps \in FpsArgs :
        LET c == [op |-> "run_animation",
                  args |-> [frames |-> frames, fps |-> fps],
                  pc |-> "startup", frame |-> 0, stdout |-> << >>,
                  terminal |-> << >>,
                  drawn |-> NoneDrawn, interrupted |-> FALSE,
                  raised |-> FALSE, exc |-> "none", ret |-> "none"]
        IN  /\ width' = 40
            /\ height' = 15
            /\ buffer' = _create_buffer(40, 15)
            /\ call' = IF fps = 0 THEN Fails(c, "ZeroDivisionError")
                       ELSE [c EXCEPT !.stdout =
                                <<Message("Starting ASCII Animation..."),
                                  Message("Press Ctrl+C to stop\n")>>]
            /\ UNCHANGED ncalls

\* main.py 20-22: time.sleep(1) ends, the try block is entered
StartupSleep ==
    /\ At("startup")
    /\ call' = [call EXCEPT !.pc = "for"]
    /\ UNCHANGED <<width, height, buffer, ncalls>>

\* main.py 23: for frame in range(frames)
LoopHead ==
    /\ At("for")
    /\ call' = [call EXCEPT !.pc = IF call.frame < call.args.frames
                                   THEN "clear" ELSE "complete"]
    /\ UNCHANGED <<width, height, buffer, ncalls>>

\* main.py 25: screen.clear()
FrameClear ==
    /\ At("clear")
    /\ buffer' = clear(Screen)
    /\ call' = [call EXCEPT !.pc = "box", !.drawn = NoneDrawn]
    /\ UNCHANGED <<width, height, ncalls>>

\* one element is drawn into the Screen
Element(pc, name, next, r) ==
    /\ At(pc)
    /\ ~r.hung
    /\ buffer' = r.buffer
    /\ call' = IF r.raised THEN Fails(call, "IndexError")
               ELSE [call EXCEPT !.pc = next, !.drawn[name] = r.calls]
    /\ UNCHANGED <<width, height, ncalls>>

\* main.py 28
FrameBox == Element("box", "box", "text", render_bouncing_box(Screen, call.frame))

\* main.py 29
FrameText ==
    Element("text", "text", "circle", render_sliding_text(Screen, call.frame, CODEFLOW))

\* main.py 30
FrameCircle ==
    Element("circle", "circle", "wave", render_blinking_circle(Screen, call.frame))

\* main.py 31
FrameWave == Element("wave", "wave", "display", render_wave_line(Screen, call.frame))

\* main.py 34: screen.display() wipes the terminal and prints
\* screen.render(); stdout notes the frame index the block was printed in
FrameDisplay ==
    /\ At("display")
    /\ call' = [call EXCEPT
                  !.pc = "counter",
                  !.terminal = render(Screen),
                  !.stdout = Append(@, [print |-> "display", frame |-> call.frame])]
    /\ UNCHANGED <<width, height, buffer, ncalls>>

\* main.py 37: print(f"Frame: {frame + 1}/{frames}")
FrameCounter ==
    /\ At("counter")
    /\ call' = [call EXCEPT
                  !.pc = "sleep",
                  !.stdout = Append(@, [print |-> "counter", frame |-> call.frame + 1,
                                        frames |-> call.args.frames])]
    /\ UNCHANGED <<width, height, buffer, ncalls>>

\* main.py 40: time.sleep(frame_delay) raises ValueError for a negative
\* delay; otherwise the loop goes on with the next frame index
FrameSleep ==
    /\ At("sleep")
    /\ call' = IF call.args.fps < 0 THEN Fails(call, "ValueError")
               ELSE [call EXCEPT !.pc = "for", !.frame = @ + 1]
    /\ UNCHANGED <<width, height, buffer, ncalls>>

\* Ctrl+C: KeyboardInterrupt is raised at the statement the run is at; inside
\* the try block `except KeyboardInterrupt` (main.py 42) catches it, anywhere
\* else it leaves run_animation
Interrupt ==
    /\ Running
    /\ ~Ended
    /\ ~call.interrupted
    /\ call' = IF call.pc \in TryPcs
               THEN [call EXCEPT !.interrupted = TRUE, !.pc = "except"]
               ELSE [Fails(call, "KeyboardInterrupt") EXCEPT !.interrupted = TRUE]
    /\ UNCHANGED <<width, height, buffer, ncalls>>

\* main.py 43
Handler ==
    /\ At("except")
    /\ call' = [call EXCEPT
                  !.pc = "complete",
                  !.stdout = Append(@, Message("\nAnimation stopped by user."))]
    /\ UNCHANGED <<width, height, buffer, ncalls>>

\* main.py 45, and the return
Complete ==
    /\ At("complete")
    /\ call' = [call EXCEPT
                  !.pc = "returned", !.ret = "None",
                  !.stdout = Append(@, Message("\nAnimation complete!"))]
    /\ UNCHANGED <<width, height, buffer, ncalls>>

\* the motion functions called on their own, or one run of run_animation
NextAnimation ==
    \/ ReturnMotion
    \/ CallBounce
    \/ CallSlide
    \/ CallBlink
    \/ CallWave
    \/ StartAnimation
    \/ StartupSleep
    \/ LoopHead
    \/ FrameClear
    \/ FrameBox
    \/ FrameText
    \/ FrameCircle
    \/ FrameWave
    \/ FrameDisplay
    \/ FrameCounter
    \/ FrameSleep
    \/ Interrupt
    \/ Handler
    \/ Complete

SpecAnimation == InitMotion /\ [][NextAnimation]_vars

----------------------------------------------------------------------------
(* Vocabulary of the properties                                            *)

InBounds(x, y) == 0 <= x /\ x < width /\ 0 <= y /\ y < height

\* the character of cell (x, y) of buffer b
CellAt(b, x, y) == b[y + 1][x + 1]

\* the coordinates passed to set_pixel by a sequence of calls
Cells(calls) == {<<calls[k][1], calls[k][2]>> : k \in 1..Len(calls)}

\* the cells of the buffer
AllCells == {<<i, j>> \in (0..(width - 1)) \X (0..(height - 1)) : TRUE}

\* every string of one character the calls of the model write
OneChar == Chars \cup FillChars \cup TextChars \cup {" ", "*", "o"}

DrawOps == {"draw_box", "draw_filled_box", "draw_line", "draw_circle", "draw_text"}

\* s.split(sep) for a one-character sep
RECURSIVE SplitOn(_, _, _)
SplitOn(s, sep, cur) ==
    IF s = << >> THEN <<cur>>
    ELSE IF Head(s) = sep THEN <<cur>> \o SplitOn(Tail(s), sep, << >>)
    ELSE SplitOn(Tail(s), sep, Append(cur, Head(s)))

SplitLines(s) == SplitOn(s, "\n", << >>)

\* s.split('\n') of a long text: the lines between its newlines
Lines(s) ==
    LET nl == {i \in 1..Len(s) : s[i] = "\n"}
        n == Cardinality(nl)
        \* the position of the k-th newline, the ends of s for k = 0 and n + 1
        cut(k) == IF k = 0 THEN 0
                  ELSE IF k = n + 1 THEN Len(s) + 1
                  ELSE CHOOSE i \in nl : Cardinality({j \in nl : j <= i}) = k
    IN  [k \in 1..(n + 1) |-> SubSeq(s, cut(k - 1) + 1, cut(k) - 1)]

\* the character the printed block `text` shows for cell (x, y) of the buffer:
\* line y + 1 of the block (line 0 is the top border), column x + 1
BlockCell(text, x, y) == Lines(text)[y + 2][x + 2]

\* the positions of run_animation at which the circle of the current frame has
\* been drawn or skipped
AfterCircle == {"wave", "display", "counter", "sleep"}

\* the positions of run_animation inside a frame: the buffer has been cleared
\* for the frame and its block has not been printed yet
MidFrame == {"box", "text", "circle", "wave", "display"}

\* the driver states of run_animation: Stopped is the normal return, Faulted
\* an exception that left it, Running everything before
Stopped == At("returned")
Faulted == At("raised")

\* the statements of run_animation in the order one iteration reaches them,
\* the two ends last
PcOrder == <<"startup", "for", "clear", "box", "text", "circle", "wave",
             "display", "counter", "sleep", "except", "complete",
             "returned", "raised">>

\* how far a run has come: its frame index, then its statement
Progress(c) ==
    c.frame * (Len(PcOrder) + 1)
        + (CHOOSE i \in 1..Len(PcOrder) : PcOrder[i] = c.pc)

\* Screen(40, 15) as constructed: every cell blank
BlankScreen == [width |-> 40, height |-> 15, buffer |-> _create_buffer(40, 15)]

\* the Screen after the four draw calls of frame k on a blank Screen, in order
FrameOf(k) ==
    LET s1 == [BlankScreen EXCEPT !.buffer = render_bouncing_box(BlankScreen, k).buffer]
        s2 == [s1 EXCEPT !.buffer = render_sliding_text(s1, k, CODEFLOW).buffer]
        s3 == [s2 EXCEPT !.buffer = render_blinking_circle(s2, k).buffer]
    IN  [s3 EXCEPT !.buffer = render_wave_line(s3, k).buffer]

\* the frame indices of the blocks display() has printed, in the order printed
BlockFrames(out) ==
    LET d == SelectSeq(out, LAMBDA e : e.print = "display")
    IN  [k \in 1..Len(d) |-> d[k].frame]

\* what a finished run_animation leaves its caller with: the value returned
\* and the last line printed, its completion report
Outcome(c) == [ret |-> c.ret, report |-> c.stdout[Len(c.stdout)].text]

----------------------------------------------------------------------------
(* Properties                                                              *)

\* C1: on a Screen of positive width and height, after any sequence of clear,
\* set_pixel and rasterizer calls the buffer has exactly `height` rows of
\* exactly `width` cells, width and height are those given to the constructor
\* (every call leaves them as it found them), and every cell holds one character.
C1_BufferShape ==
    /\ Len(buffer) = height
    /\ \A j \in 1..Len(buffer) : Len(buffer[j]) = width
    /\ \A j \in 1..Len(buffer) : \A i \in 1..Len(buffer[j]) : buffer[j][i] \in OneChar
    /\ call.op = "__init__" => width = call.args.width /\ height = call.args.height
    /\ call.op \notin {"none", "__init__"} =>
           width = call.pre.width /\ height = call.pre.height

\* C1 witness: a rasterizer has drawn into a buffer that is not square
C1_Witness ==
    /\ call.op = "draw_circle"
    /\ width = 2 /\ height = 1
    /\ buffer # call.pre.buffer
    /\ call.pre.buffer # _create_buffer(width, height)

\* C2: an in-bounds set_pixel(x, y, c) followed by get_pixel(x, y) returns c;
\* an out-of-bounds set_pixel (negative coordinates included) leaves the whole
\* buffer unchanged and get_pixel there returns a space.
C2_SetThenGet ==
    /\ call.op = "set_pixel" =>
           /\ ~call.raised
           /\ IF InBounds(call.args.x, call.args.y)
              THEN get_pixel(Screen, call.args.x, call.args.y)
                       = [ret |-> call.args.char, raised |-> FALSE]
              ELSE /\ buffer = call.pre.buffer
                   /\ get_pixel(Screen, call.args.x, call.args.y)
                          = [ret |-> " ", raised |-> FALSE]
    /\ call.op = "get_pixel" /\ ~InBounds(call.args.x, call.args.y) =>
           call.ret = " " /\ ~call.raised

\* C2 witness: a character other than a space was set in bounds, away from
\* the origin, in a buffer that is not square
C2_Witness ==
    /\ call.op = "set_pixel"
    /\ InBounds(call.args.x, call.args.y)
    /\ call.args.x > call.args.y /\ width > height
    /\ call.args.char = "o"
    /\ buffer # call.pre.buffer

\* C3: every rasterizer call, whatever its geometry (coordinates outside the
\* buffer, zero-length lines, zero-radius circles, zero or negative box sizes,
\* text past the edge), returns without an exception, keeps the shape of the
\* buffer, and changes only cells whose in-bounds coordinates it passed to
\* set_pixel.
C3_Clipping ==
    call.op \in DrawOps =>
        /\ ~call.raised
        /\ ~call.hung
        /\ Len(buffer) = height
        /\ \A j \in 1..Len(buffer) : Len(buffer[j]) = width
        /\ \A p \in AllCells :
               CellAt(buffer, p[1], p[2]) # CellAt(call.pre.buffer, p[1], p[2])
                   => p \in Cells(call.writes)

\* C3 witness: a box with a corner left of and above the buffer was drawn and
\* changed the buffer
C3_Witness ==
    /\ call.op = "draw_box"
    /\ call.args.x < 0 /\ call.args.y < 0
    /\ call.args.x + call.args.width > width
    /\ buffer # call.pre.buffer

\* C4: in every reachable buffer state render() returns height + 2 lines of
\* length width + 2: the border '+' '-' * width '+' first and last, and line i
\* in between '|' + row i + '|'; all spaces inside after construction or clear.
C4_Render ==
    LET out    == SplitLines(render(Screen))
        border == <<"+">> \o [i \in 1..width |-> "-"] \o <<"+">>
    IN  /\ Len(out) = height + 2
        /\ \A k \in 1..Len(out) : Len(out[k]) = width + 2
        /\ out[1] = border
        /\ out[Len(out)] = border
        /\ \A j \in 1..height : out[j + 1] = <<"|">> \o buffer[j] \o <<"|">>
        /\ call.op \in {"__init__", "clear"} =>
               \A j \in 1..height : out[j + 1] = <<"|">> \o [i \in 1..width |-> " "] \o <<"|">>
        /\ call.op = "render" => call.ret = render(Screen)

\* C5: clear() raises nothing and leaves every cell a space and width and
\* height unchanged, from any buffer; a second clear() changes nothing more.
C5_Clear ==
    call.op = "clear" =>
        /\ ~call.raised
        /\ width = call.pre.width /\ height = call.pre.height
        /\ Len(buffer) = Len(call.pre.buffer)
        /\ \A j \in 1..Len(buffer) :
               /\ Len(buffer[j]) = Len(call.pre.buffer[j])
               /\ \A i \in 1..Len(buffer[j]) : buffer[j][i] = " "
        /\ clear(Screen) = buffer

\* C5 witness: a buffer holding a character other than a space was cleared
C5_Witness ==
    /\ call.op = "clear"
    /\ width > 1 /\ height > 1
    /\ call.pre.buffer # buffer

\* C6: Screen(width, height) with width <= 0 or height <= 0 fails with
\* InvalidDimension and yields no buffer; it succeeds, all cells spaces, only
\* when both are positive.
C6_InvalidDimension ==
    call.op = "__init__" =>
        IF call.args.width <= 0 \/ call.args.height <= 0
        THEN call.raised
        ELSE /\ ~call.raised
             /\ buffer = [j \in 1..height |-> [i \in 1..width |-> " "]]

\* C7 as stated: draw_line from (x1,y1) to (x2,y2) and from (x2,y2) to
\* (x1,y1) pass the same set of cells to set_pixel, for every pair of endpoints.
C7_LineSymmetric ==
    call.op = "draw_line" =>
        Cells(call.writes)
            = Cells(draw_line_calls(call.args.x2, call.args.y2,
                                    call.args.x1, call.args.y1, call.args.char).calls)

\* C7 amended: the two directions pass the same set of cells when the segment
\* is a point, horizontal, vertical or exactly diagonal; for every segment both
\* directions pass the same number of distinct cells, max(dx, dy) + 1, and both
\* pass both endpoints.
C7_LineSymmetricOnAxes ==
    call.op = "draw_line" =>
        LET a   == call.args
            dx  == abs(a.x2 - a.x1)
            dy  == abs(a.y2 - a.y1)
            fwd == Cells(call.writes)
            bwd == Cells(draw_line_calls(a.x2, a.y2, a.x1, a.y1, a.char).calls)
        IN  /\ (dx = 0 \/ dy = 0 \/ dx = dy) => fwd = bwd
            /\ Cardinality(fwd) = (IF dx > dy THEN dx ELSE dy) + 1
            /\ Cardinality(bwd) = Cardinality(fwd)
            /\ {<<a.x1, a.y1>>, <<a.x2, a.y2>>} \subseteq fwd \cap bwd

\* C7 witness: an exactly diagonal segment of three cells, drawn right to left
\* and upwards
C7_Witness ==
    /\ call.op = "draw_line"
    /\ call.args.x1 - call.args.x2 = 2
    /\ call.args.y1 - call.args.y2 = 2
    /\ Len(call.writes) = 3
    /\ buffer # call.pre.buffer

\* C8: the set of coordinates draw_circle passes to set_pixel is closed under
\* reflection across the vertical and across the horizontal axis through the
\* centre, for every centre and every radius >= 0.
C8_CircleSymmetric ==
    call.op = "draw_circle" /\ call.args.radius >= 0 =>
        LET cx == call.args.cx
            cy == call.args.cy
        IN  \A p \in Cells(call.writes) :
                /\ <<2 * cx - p[1], p[2]>> \in Cells(call.writes)
                /\ <<p[1], 2 * cy - p[2]>> \in Cells(call.writes)

\* C8 witness: a circle of radius 3, whose second round writes eight distinct
\* cells off the axes and off the diagonals
C8_Witness ==
    /\ call.op = "draw_circle"
    /\ call.args.radius = 3
    /\ Len(call.writes) = 16
    /\ <<call.args.cx - 1, call.args.cy + 2>> \in Cells(call.writes)
    /\ buffer # call.pre.buffer

\* C9: draw_box(x, y, width, height) sets exactly the in-bounds cells of the
\* top row, bottom row, left column and right column of the rectangle
\* [x, x+width) x [y, y+height) and no other cell; with zero or negative width
\* or height it leaves the buffer unchanged.
C9_BoxOutline ==
    call.op = "draw_box" =>
        LET a == call.args
            Edge(i, j) ==
                /\ a.width > 0 /\ a.height > 0
                /\ a.x <= i /\ i < a.x + a.width
                /\ a.y <= j /\ j < a.y + a.height
                /\ (i = a.x \/ i = a.x + a.width - 1 \/ j = a.y \/ j = a.y + a.height - 1)
        IN  \A p \in AllCells :
                CellAt(buffer, p[1], p[2])
                    = IF Edge(p[1], p[2]) THEN a.char
                      ELSE CellAt(call.pre.buffer, p[1], p[2])

\* C10: draw_filled_box(x, y, width, height, c) sets to c every in-bounds cell
\* (i, j) with x <= i < x+width and y <= j < y+height and leaves every other
\* cell unchanged; with width <= 0 or height <= 0 the buffer is unchanged.
C10_FilledBox ==
    call.op = "draw_filled_box" =>
        LET a == call.args
            Inside(i, j) ==
                /\ a.x <= i /\ i < a.x + a.width
                /\ a.y <= j /\ j < a.y + a.height
        IN  /\ \A p \in AllCells :
                   CellAt(buffer, p[1], p[2])
                       = IF Inside(p[1], p[2]) THEN a.char
                         ELSE CellAt(call.pre.buffer, p[1], p[2])
            /\ (a.width <= 0 \/ a.height <= 0) => buffer = call.pre.buffer
            /\ ~call.raised

\* C10 witness: a filled box wider than high, cut by the right edge of a buffer
\* that held another character, filled some cells and left others
C10_Witness ==
    /\ call.op = "draw_filled_box"
    /\ call.args.width = 3 /\ call.args.height = 1
    /\ call.args.x = 1 /\ call.args.y = 1
    /\ width = 2 /\ height = 2
    /\ CellAt(call.pre.buffer, 1, 1) = "o"
    /\ CellAt(buffer, 1, 1) = "#"
    /\ CellAt(buffer, 0, 1) = " "

\* C11: draw_text(x, y, text) writes the i-th character of text to cell
\* (x + i, y) for every index i whose cell is in bounds, drops the characters
\* whose cell is out of bounds (none wraps onto another row) and leaves every
\* other cell, every cell outside row y among them, as it was; it never raises.
C11_DrawText ==
    call.op = "draw_text" =>
        LET a == call.args
            Covered(i, j) == j = a.y /\ a.x <= i /\ i < a.x + Len(a.text)
        IN  /\ \A p \in AllCells :
                   CellAt(buffer, p[1], p[2])
                       = IF Covered(p[1], p[2]) THEN a.text[p[1] - a.x + 1]
                         ELSE CellAt(call.pre.buffer, p[1], p[2])
            /\ ~call.raised

\* C11 witness: a text of two characters starting in the last column of the
\* first row of a buffer whose second row held another character: the first
\* character is written, the second is dropped, the second row is as it was
C11_Witness ==
    /\ call.op = "draw_text"
    /\ width = 2 /\ height = 2
    /\ call.args.x = 1 /\ call.args.y = 0
    /\ call.args.text = <<"A", "B">>
    /\ CellAt(call.pre.buffer, 0, 1) = "o"
    /\ CellAt(buffer, 1, 0) = "A"
    /\ CellAt(buffer, 0, 1) = "o"

\* C12: for all integers start, end and duration >= 1,
\* slide_position(0, start, end, duration) is start, slide_position(frame, ...)
\* is end for every frame >= duration, the result always lies between start
\* and end inclusive, and for start < end the result of the next frame is not
\* smaller than this frame's.
C12_SlideProfile ==
    (call.op = "slide_position" /\ call.args.duration >= 1) =>
        LET a == call.args
            lo == IF a.start <= a.end THEN a.start ELSE a.end
            hi == IF a.start <= a.end THEN a.end ELSE a.start
            next == slide_position(a.frame + 1, a.start, a.end, a.duration)
        IN  /\ ~call.raised
            /\ a.frame = 0 => call.ret = a.start
            /\ a.frame >= a.duration => call.ret = a.end
            /\ lo <= call.ret /\ call.ret <= hi
            /\ a.start < a.end => (~next.raised /\ call.ret <= next.ret)

\* C12 witness: a slide from -3 to 3 over 4 frames is asked for a frame past
\* the duration and answers the end position
C12_Witness ==
    /\ call.op = "slide_position"
    /\ call.args.start = 0 - 3 /\ call.args.end = 3
    /\ call.args.duration = 4 /\ call.args.frame = 6
    /\ call.ret = 3

\* C14: for every frame index >= 0 and every choice of non-negative integer
\* amplitude, duration, on_frames and off_frames a motion function returns a
\* value and never raises; a slide with duration 0 returns end.
C14_MotionTotal ==
    call.op \in MotionOps =>
        /\ ~call.raised
        /\ (call.op = "slide_position" /\ call.args.duration = 0)
               => call.ret = call.args.end

\* C13: for every frame >= 0 and on_frames + off_frames >= 1,
\* blink_visible(frame, on_frames, off_frames) is true exactly when
\* frame mod (on_frames + off_frames) < on_frames; with on = 8 and off = 4 it
\* is true for frame mod 12 in [0, 8) and false for frame mod 12 in [8, 12),
\* and run_animation draws its circle in exactly those frames: the circle's
\* set_pixel calls are made, and its rightmost point (34, 7) shows '*' in the
\* printed block, exactly then.
C13_Blink ==
    /\ (call.op = "blink_visible"
            /\ call.args.on_frames + call.args.off_frames >= 1) =>
           /\ ~call.raised
           /\ call.ret = ((call.args.frame
                              % (call.args.on_frames + call.args.off_frames))
                            < call.args.on_frames)
    /\ (Running /\ call.pc \in AfterCircle) =>
           /\ blink_visible(call.frame, 8, 4).ret = (call.frame % 12 \in 0..7)
           /\ (call.drawn.circle # << >>) = (call.frame % 12 \in 0..7)
    /\ At("counter") =>
           (BlockCell(call.terminal, 34, 7) = "*") = (call.frame % 12 \in 0..7)

\* C13 witness: frame 8 of a run, the first frame of the off phase, has been
\* printed without the circle
C13_Witness ==
    /\ At("counter")
    /\ call.frame = 8
    /\ call.drawn.circle = << >>
    /\ BlockCell(call.terminal, 34, 7) = " "

\* C15: an uninterrupted run of run_animation with frames = N >= 1 prints
\* exactly N blocks, one per frame index 0, 1, ..., N-1 in increasing order,
\* each block of 17 lines of length 42, and then ends by returning, N blocks
\* printed in all.
C15_FramesEmitted ==
    (Running /\ ~call.interrupted /\ call.args.frames >= 1) =>
        LET b == BlockFrames(call.stdout) IN
        /\ \A k \in 1..Len(b) : b[k] = k - 1
        /\ Len(b) <= call.args.frames
        /\ At("counter") =>
               LET l == Lines(call.terminal)
               IN  Len(l) = 17 /\ \A j \in 1..Len(l) : Len(l[j]) = 42
        /\ Ended => (call.pc = "returned" /\ Len(b) = call.args.frames)

\* C16: in every frame the elements are drawn in the order bouncing box,
\* sliding text, blinking circle, wave line, and every cell of the printed
\* block shows the character of the latest element in that order that wrote
\* it: '~' of the wave, else '*' of the circle, else the text's character,
\* else '#' of the box, else a blank.
C16_LastWriteWins ==
    /\ At("box") => call.drawn = NoneDrawn
    /\ At("text") =>
           call.drawn.text = << >> /\ call.drawn.circle = << >> /\ call.drawn.wave = << >>
    /\ At("circle") => call.drawn.circle = << >> /\ call.drawn.wave = << >>
    /\ At("wave") => call.drawn.wave = << >>
    /\ At("counter") =>
           LET d == call.drawn
               lines == Lines(call.terminal)
               Covers(calls, x, y) ==
                   \E k \in 1..Len(calls) : calls[k][1] = x /\ calls[k][2] = y
               TextChar(x, y) ==
                   LET k == CHOOSE k \in 1..Len(d.text) :
                                d.text[k][1] = x /\ d.text[k][2] = y
                   IN  d.text[k][3]
               Latest(x, y) ==
                   IF Covers(d.wave, x, y) THEN "~"
                   ELSE IF Covers(d.circle, x, y) THEN "*"
                   ELSE IF Covers(d.text, x, y) THEN TextChar(x, y)
                   ELSE IF Covers(d.box, x, y) THEN "#"
                   ELSE " "
           IN  \A p \in AllCells : lines[p[2] + 2][p[1] + 2] = Latest(p[1], p[2])

\* C16 witness: frame 12 has been printed; the wave crosses the box and the
\* circle and the text crosses the top row of the box: cell (8, 7) was written
\* by the box and by the text and shows 'W', and some cell written by the
\* circle and by the wave, and some cell written by the box and by the wave,
\* shows '~'
C16_Witness ==
    /\ At("counter")
    /\ call.frame = 12
    /\ <<8, 7>> \in Cells(call.drawn.box) \cap Cells(call.drawn.text)
    /\ BlockCell(call.terminal, 8, 7) = "W"
    /\ \E p \in Cells(call.drawn.circle) \cap Cells(call.drawn.wave) :
           BlockCell(call.terminal, p[1], p[2]) = "~"
    /\ \E p \in Cells(call.drawn.box) \cap Cells(call.drawn.wave) :
           BlockCell(call.terminal, p[1], p[2]) = "~"

\* C17: once run_animation has been started, an interruption signal arriving
\* at any point ends in a normal return; no exception leaves run_animation.
C17_GracefulInterruption ==
    (Running /\ call.interrupted) => ~call.raised

\* C18: run_animation with a non-positive frame count or a non-positive fps
\* ends with an error at once: nothing has been printed, no frame has been
\* cleared, drawn or printed, and it never goes on to a frame or to a normal
\* return.
C18_ConfigFailFast ==
    (Running /\ (call.args.frames <= 0 \/ call.args.fps <= 0)) =>
        /\ call.pc = "raised"
        /\ call.stdout = << >>
        /\ call.drawn = NoneDrawn
        /\ buffer = _create_buffer(40, 15)

\* C19: a run ended by an interruption returns normally, and what it leaves
\* its caller with (return value and completion report) differs from what a
\* run in which all frames completed leaves.
C19_StopDistinct ==
    LET completed == [ret |-> "None", report |-> "\nAnimation complete!"] IN
    /\ (At("returned") /\ ~call.interrupted) => Outcome(call) = completed
    /\ (At("returned") /\ call.interrupted) => Outcome(call) # completed

\* C20: draw_line terminates for every pair of endpoints (its loop has ended
\* within the iterations followed and no exception escaped), the first
\* coordinate passed to set_pixel is (x1, y1) and the last is (x2, y2), and
\* from one iteration to the next x and y each stay or move by one toward the
\* endpoint, at least one of them moving.
C20_LineTerminates ==
    call.op = "draw_line" =>
        LET a == call.args
            w == call.writes
            n == Len(w)
            Sgn(d) == IF d > 0 THEN 1 ELSE IF d < 0 THEN 0 - 1 ELSE 0
        IN  /\ ~call.hung
            /\ ~call.raised
            /\ n >= 1
            /\ w[1][1] = a.x1 /\ w[1][2] = a.y1
            /\ w[n][1] = a.x2 /\ w[n][2] = a.y2
            /\ \A k \in 1..(n - 1) :
                   LET stepx == w[k + 1][1] - w[k][1]
                       stepy == w[k + 1][2] - w[k][2]
                   IN  /\ stepx \in {0, Sgn(a.x2 - w[k][1])}
                       /\ stepy \in {0, Sgn(a.y2 - w[k][2])}
                       /\ stepx # 0 \/ stepy # 0

\* C20 witness: a line drawn leftwards and upwards from (2, 2) to (-1, 0), with
\* both endpoints among its four set_pixel calls
C20_Witness ==
    /\ call.op = "draw_line"
    /\ call.args.x1 = 2 /\ call.args.y1 = 2
    /\ call.args.x2 = 0 - 1 /\ call.args.y2 = 0
    /\ Len(call.writes) = 4
    /\ <<2, 2>> \in Cells(call.writes)
    /\ <<0 - 1, 0>> \in Cells(call.writes)

\* C21: once the buffer has been cleared for frame k, every step of
\* run_animation goes on with frame k (the next element, or the printing of
\* the block) until the block of frame k has been printed: it does not turn
\* to stopping in between, and the blocks printed before are still there.
C21_FrameBoundary ==
    [][(Running /\ call.pc \in MidFrame) =>
           /\ call'.pc \in MidFrame \cup {"counter"}
           /\ call'.frame = call.frame
           /\ \A k \in 1..Len(BlockFrames(call.stdout)) :
                  BlockFrames(call'.stdout)[k] = BlockFrames(call.stdout)[k]]_vars

\* C22: the block printed for frame index k is the rendering of a blank buffer
\* after frame k's four draw calls in order, whatever the frame count of the
\* run and whatever the earlier frames drew: every frame starts its drawing
\* on a blank buffer, so nothing of frame k-1 is left in frame k.
C22_FramesStateless ==
    /\ At("box") => buffer = BlankScreen.buffer
    /\ At("counter") => call.terminal = render(FrameOf(call.frame))

\* C22 witness: frame 1 has been printed in a run of more than two frames:
\* cell (5, 2), a corner of the box in frame 0, is blank, and the box is one
\* row lower
C22_Witness ==
    /\ At("counter")
    /\ call.frame = 1
    /\ call.args.frames > 2
    /\ BlockCell(call.terminal, 5, 2) = " "
    /\ BlockCell(call.terminal, 5, 7) = "#"

\* C23: run_animation is only ever Running or Stopped (no exception leaves
\* it); the blocks printed so far are those of the frame indices 0, 1, 2, ...
\* in order, none repeated or skipped; nothing happens after Stopped; and
\* every run reaches Stopped, whether or not an interruption occurs: every
\* step takes the run further through its frames and statements, of which
\* there are finitely many, and the only state it ends in is Stopped.
C23_StateMachine ==
    /\ [](~Faulted)
    /\ [](Running => \A k \in 1..Len(BlockFrames(call.stdout)) :
                         BlockFrames(call.stdout)[k] = k - 1)
    /\ [][~Stopped]_vars
    /\ [][Running =>
              /\ Progress(call') > Progress(call)
              /\ call'.frame <= IF call.args.frames > 0 THEN call.args.frames ELSE 0]_vars

\* C24: for all integers start and end, duration >= 1 and frame >= 0,
\* slide_position returns the mathematical floor of
\* start + (end - start) * min(frame / duration, 1): the largest integer not
\* above it, for negative values too.
C24_SlideFloor ==
    (call.op = "slide_position" /\ call.args.duration >= 1) =>
        LET a == call.args
            num == IF a.frame >= a.duration THEN a.duration ELSE a.frame
            \* floor((start * duration + (end - start) * num) / duration)
            floor == CHOOSE q \in (0 - 2 * MaxPos - 1)..(2 * MaxPos + 1) :
                         /\ q * a.duration <= a.start * a.duration + (a.end - a.start) * num
                         /\ a.start * a.duration + (a.end - a.start) * num < (q + 1) * a.duration
        IN  /\ ~call.raised
            /\ call.ret = floor

\* C25: draw_circle terminates for every radius (its loop has ended within
\* the iterations followed, no exception escaped); with radius 0 the only
\* coordinate passed to set_pixel is the centre, the centre cell holds the
\* character afterwards and every other cell is as it was, so that exactly
\* one cell has changed when the centre is in bounds and held another
\* character; with a negative radius set_pixel is not called and the buffer
\* is as it was.
C25_CircleDegenerate ==
    call.op = "draw_circle" =>
        LET a == call.args
            changed == {p \in AllCells :
                           CellAt(buffer, p[1], p[2]) # CellAt(call.pre.buffer, p[1], p[2])}
        IN  /\ ~call.hung
            /\ ~call.raised
            /\ a.radius = 0 =>
                   /\ Cells(call.writes) = {<<a.cx, a.cy>>}
                   /\ changed \subseteq {<<a.cx, a.cy>>}
                   /\ InBounds(a.cx, a.cy) =>
                          /\ CellAt(buffer, a.cx, a.cy) = a.char
                          /\ CellAt(call.pre.buffer, a.cx, a.cy) # a.char
                                 => Cardinality(changed) = 1
            /\ a.radius < 0 => (call.writes = << >> /\ buffer = call.pre.buffer)

\* C25 witness: a circle of radius 0 drawn at (1, 0) of a blank 2 x 2 buffer
\* made its eight set_pixel calls and changed that cell alone
C25_Witness ==
    /\ call.op = "draw_circle"
    /\ call.args.radius = 0
    /\ call.args.cx = 1 /\ call.args.cy = 0
    /\ width = 2 /\ height = 2
    /\ call.pre.buffer = _create_buffer(2, 2)
    /\ Len(call.writes) = 8
    /\ CellAt(buffer, 1, 0) = "o"
    /\ CellAt(buffer, 0, 0) = " " /\ CellAt(buffer, 0, 1) = " " /\ CellAt(buffer, 1, 1) = " "

\* C29: for every radius r with 1 <= r <= 12, every coordinate
\* (cx + dx, cy + dy) that draw_circle passes to set_pixel lies within one
\* cell of the ideal circle, (r-1)^2 <= dx^2 + dy^2 <= (r+1)^2, and
\* |dx| <= r and |dy| <= r.
C29_CircleAccuracy ==
    (call.op = "draw_circle" /\ 1 <= call.args.radius /\ call.args.radius <= 12) =>
        LET a == call.args
            r == a.radius
        IN  \A k \in 1..Len(call.writes) :
                LET dx == call.writes[k][1] - a.cx
                    dy == call.writes[k][2] - a.cy
                IN  /\ (r - 1) * (r - 1) <= dx * dx + dy * dy
                    /\ dx * dx + dy * dy <= (r + 1) * (r + 1)
                    /\ abs(dx) <= r
                    /\ abs(dy) <= r

\* C26: for every rasterizer, geometry and fill character, the same call
\* made again right after the first leaves the buffer as the first call left
\* it, and within a call a cell written several times is given the same
\* character every time.
C26_Idempotent ==
    LET a == call.args IN
    /\ call.op = "draw_box" =>
           draw_box(Screen, a.x, a.y, a.width, a.height, a.char).buffer = buffer
    /\ call.op = "draw_filled_box" =>
           draw_filled_box(Screen, a.x, a.y, a.width, a.height, a.char).buffer = buffer
    /\ call.op = "draw_line" =>
           draw_line(Screen, a.x1, a.y1, a.x2, a.y2, a.char).buffer = buffer
    /\ call.op = "draw_circle" =>
           draw_circle(Screen, a.cx, a.cy, a.radius, a.char).buffer = buffer
    /\ call.op = "draw_text" =>
           draw_text(Screen, a.x, a.y, a.text).buffer = buffer
    /\ call.op \in DrawOps =>
           \A k \in 1..Len(call.writes), l \in 1..Len(call.writes) :
               (call.writes[k][1] = call.writes[l][1]
                    /\ call.writes[k][2] = call.writes[l][2])
                   => call.writes[k][3] = call.writes[l][3]

\* C26 witness: a box one cell wide and two high, whose left and right edges
\* coincide, was drawn into a 2 x 2 buffer: its cells were written more than
\* once and hold the fill character
C26_Witness ==
    /\ call.op = "draw_box"
    /\ call.args.width = 1 /\ call.args.height = 2
    /\ call.args.x = 0 /\ call.args.y = 0
    /\ width = 2 /\ height = 2
    /\ Len(call.writes) > Cardinality(Cells(call.writes))
    /\ CellAt(buffer, 0, 0) = "#" /\ CellAt(buffer, 0, 1) = "#"
    /\ buffer # call.pre.buffer

\* C27: an in-bounds set_pixel(x, y, c) gives cell (x, y) the character c and
\* leaves every other cell, the width and the height as they were; get_pixel
\* and render leave the Screen as it was, so that a second render() right
\* after a render() returns the same string.
C27_FrameConditions ==
    /\ (call.op = "set_pixel"
            /\ 0 <= call.args.x /\ call.args.x < call.pre.width
            /\ 0 <= call.args.y /\ call.args.y < call.pre.height) =>
           /\ ~call.raised
           /\ width = call.pre.width
           /\ height = call.pre.height
           /\ Len(buffer) = Len(call.pre.buffer)
           /\ \A j \in 1..Len(buffer) :
                  /\ Len(buffer[j]) = Len(call.pre.buffer[j])
                  /\ \A i \in 1..Len(buffer[j]) :
                         buffer[j][i] = IF i = call.args.x + 1 /\ j = call.args.y + 1
                                        THEN call.args.char
                                        ELSE call.pre.buffer[j][i]
    /\ call.op \in {"get_pixel", "render"} => Screen = call.pre
    /\ call.op = "render" => render(Screen) = call.ret

\* C27 witness: set_pixel(1, 0, 'o') on a 2 x 2 buffer whose cell (0, 0) held
\* '#': cell (1, 0) holds 'o', cell (0, 0) still '#'
C27_Witness ==
    /\ call.op = "set_pixel"
    /\ call.args.x = 1 /\ call.args.y = 0 /\ call.args.char = "o"
    /\ width = 2 /\ height = 2
    /\ CellAt(call.pre.buffer, 0, 0) = "#"
    /\ CellAt(call.pre.buffer, 1, 0) = " "
    /\ CellAt(buffer, 1, 0) = "o"
    /\ CellAt(buffer, 0, 0) = "#"

\* C28: draw_line passes exactly max(|x2 - x1|, |y2 - y1|) + 1 distinct
\* coordinates to set_pixel, consecutive coordinates differ by at most one in
\* x and in y, and every coordinate lies in the bounding box of the endpoints.
C28_LineShape ==
    call.op = "draw_line" =>
        LET a == call.args
            w == call.writes
            n == Len(w)
            Max(p, q) == IF p >= q THEN p ELSE q
            Min(p, q) == IF p <= q THEN p ELSE q
        IN  /\ n = Max(abs(a.x2 - a.x1), abs(a.y2 - a.y1)) + 1
            /\ Cardinality(Cells(w)) = n
            /\ \A k \in 1..(n - 1) :
                   /\ abs(w[k + 1][1] - w[k][1]) <= 1
                   /\ abs(w[k + 1][2] - w[k][2]) <= 1
            /\ \A k \in 1..n :
                   /\ Min(a.x1, a.x2) <= w[k][1] /\ w[k][1] <= Max(a.x1, a.x2)
                   /\ Min(a.y1, a.y2) <= w[k][2] /\ w[k][2] <= Max(a.y1, a.y2)

\* C28 witness: the line from (-1, 2) to (2, 1), three columns across and one
\* row up, passes four distinct coordinates, one per column
C28_Witness ==
    /\ call.op = "draw_line"
    /\ call.args.x1 = 0 - 1 /\ call.args.y1 = 2
    /\ call.args.x2 = 2 /\ call.args.y2 = 1
    /\ Len(call.writes) = 4
    /\ {c[1] : c \in Cells(call.writes)} = (0 - 1)..2
    /\ {c[2] : c \in Cells(call.writes)} = {1, 2}

====
